---- MODULE Spec2Model ----
(***************************************************************************)
(* The two Datadog permission pipelines of updatedashboardpermissions.py:  *)
(* the dashboard script (lines 1-202) and the monitor script (lines        *)
(* 205-372).  One invocation of a lambda_handler is a sequential process   *)
(* whose steps are its remote calls; the remote services (audit log, team  *)
(* directory, restriction policies) are the environment.                   *)
(***************************************************************************)
EXTENDS Integers, Sequences, FiniteSets, TLC

\* ------------------------------------------------------------ universe
None == "None"
NoCursor == <<>>

Ids == {"d1", "d2"}
MonitorIds == {"m1", "m2", "m3"}
Users == {"u1", "u2"}
Invs == {1, 2}

MaxBatch == 2
MaxMonitors == 3
MaxPages == 2
MaxPageLen == 2
MaxRequests == 4

DATADOG_ROLE == "e5091040-1d03-11ef-9dbc-da7ad0900005"
DATADOG_ORG == "e4f8bb8c-1d03-11ef-9b95-da7ad0900005"

VARIABLES
  kind,             \* which lambda_handler an invocation runs: dashboard, monitor, off
  pc,               \* the remote call an invocation is about to make, or done
  dashboard_ids,    \* line 23 / 176
  next_page_token,  \* line 24
  monitor_ids,      \* line 356
  idx,              \* position of the for loop in the id list (lines 178, 358)
  user_id,          \* line 180
  team_name,        \* value of get_monitor_team(monitor_id), line 359
  team_uuid,        \* lines 185, 359
  raised,           \* an exception left lambda_handler
  calls,            \* per invocation, the remote calls made so far
  pages,            \* audit log: the creation events, as the service pages them
  after,            \* audit log: the cursor the service returns with each page
  creatorOf,        \* audit log: acting user of each dashboard's creation event
  memberships,      \* team directory: team ids of each user's memberships
  policies,         \* restriction policy service: bindings per resource key
  policies0         \* the policies as they were before the invocations

vars == <<kind, pc, dashboard_ids, next_page_token, monitor_ids, idx, user_id,
          team_name, team_uuid, raised, calls, pages, after, creatorOf,
          memberships, policies, policies0>>

env == <<kind, pages, after, creatorOf, memberships, policies0>>

\* ------------------------------------------------------------ helpers
SeqsUpTo(S, n) == UNION {[1..k -> S] : k \in 0..n}

Event(id) == [asset_id |-> id]

Log(i, rec) == [calls EXCEPT ![i] = Append(@, rec)]

PolicyKeys ==
  {<<"dashboard", d>> : d \in Ids} \cup {<<"monitor", m>> : m \in MonitorIds}

PriorPolicies ==
  { <<>>,
    << [relation |-> "editor", principals |-> << <<"team", "t2">> >>] >>,
    << [relation |-> "viewer", principals |-> << <<"user", "u2">> >>],
       [relation |-> "editor", principals |-> << <<"team", "t1">> >>],
       [relation |-> "viewer", principals |-> << <<"org", DATADOG_ORG>> >>] >> }

MembershipLists == { <<>>, <<"t1">>, <<"t2", "t1">> }

\* list_teams: the team ids a keyword search can return
TeamSearchLists == { <<>>, <<"t2", "t1">> }

\* ------------------------------------------------------------ remote services
\* search_audit_logs: the page a cursor stands for, and the cursor of the next
AuditSearch(cursor) ==
  LET p == IF cursor = NoCursor THEN 1 ELSE cursor[1]
  IN  [data |-> pages[p], after |-> after[p]]

NoResponse == [data |-> <<>>, after |-> NoCursor]

\* get_user_memberships: an unknown user is an API error
KnownUser(u) == u \in DOMAIN memberships

\* a store that adds the request's bindings to those it holds
UpdateRestrictionPolicyMerge(resource_id, body) ==
  [policies EXCEPT ![resource_id] = @ \o body.bindings]

\* update_restriction_policy: the stored policy becomes the request's bindings
UpdateRestrictionPolicy(resource_id, body) ==
  [policies EXCEPT ![resource_id] = body.bindings]

\* ------------------------------------------------------------ pure helpers
\* [event.attributes.attributes['asset']['id'] for event in response.data]
AssetIds(data) == [k \in 1..Len(data) |-> data[k].asset_id]

\* dashboard_ids = [...] in place of dashboard_ids.extend([...])
ExtendIdsOverwrite(ids, data) == AssetIds(data)

ExtendIds(ids, data) == ids \o AssetIds(data)

\* response.meta.page.after if ... else None
PageAfter(response) == response.after

\* for x in response.data: return x.id   (None when the list is empty)
FirstOrNone(data) == IF data = <<>> THEN None ELSE data[1]

\* an editor binding that leaves out the fixed role
DashboardPolicyBodyNoRole(team, dashboard_id) ==
  [id |-> <<"dashboard", dashboard_id>>,
   bindings |->
     << [relation |-> "editor", principals |-> << <<"team", team>> >>],
        [relation |-> "viewer",
         principals |-> << <<"org", DATADOG_ORG>> >>] >>]

DashboardPolicyBody(team, dashboard_id) ==
  [id |-> <<"dashboard", dashboard_id>>,
   bindings |->
     << [relation |-> "editor",
         principals |-> << <<"team", team>>, <<"role", DATADOG_ROLE>> >>],
        [relation |-> "viewer",
         principals |-> << <<"org", DATADOG_ORG>> >>] >>]

MonitorPolicyBody(team, monitor_id) ==
  [id |-> <<"monitor", monitor_id>>,
   bindings |->
     << [relation |-> "editor",
         principals |-> << <<"team", team>>, <<"role", DATADOG_ROLE>> >>],
        [relation |-> "viewer",
         principals |-> << <<"org", DATADOG_ORG>> >>] >>]

\* ------------------------------------------------------------ control transfers
\* each fixes pc', idx' and raised'
Goto(i, label) ==
  /\ pc' = [pc EXCEPT ![i] = label]
  /\ UNCHANGED <<idx, raised>>

\* if dashboard_ids: for dashboard_id in dashboard_ids ... else: print
DashEnterLoop(i, ids) ==
  /\ pc' = [pc EXCEPT ![i] = IF ids = <<>> THEN "done" ELSE "creator"]
  /\ idx' = [idx EXCEPT ![i] = 1]
  /\ UNCHANGED raised

\* continue / end of the loop body: the next dashboard_id, or the end of the list
DashContinue(i) ==
  /\ idx' = [idx EXCEPT ![i] = @ + 1]
  /\ pc' = [pc EXCEPT ![i] =
              IF idx[i] + 1 > Len(dashboard_ids[i]) THEN "done" ELSE "creator"]
  /\ UNCHANGED raised

\* a handler without the outer try: the exception leaves lambda_handler
DashTopExceptReraise(i) ==
  /\ pc' = [pc EXCEPT ![i] = "done"]
  /\ raised' = [raised EXCEPT ![i] = TRUE]
  /\ UNCHANGED idx

\* except Exception as e, around the whole handler
DashTopExcept(i) ==
  /\ pc' = [pc EXCEPT ![i] = "done"]
  /\ UNCHANGED <<idx, raised>>

\* a loop without the inner try: the exception ends the for loop
DashResourceExceptAborts(i) ==
  /\ pc' = [pc EXCEPT ![i] = "done"]
  /\ UNCHANGED <<idx, raised>>

\* except Exception as dashboard_error, inside the for loop
DashResourceExcept(i) == DashContinue(i)

\* a loop body without the user_id check
DashAfterCreatorNoSkip(i, u) == Goto(i, "team")

\* if not user_id: continue
DashAfterCreator(i, u) ==
  IF u = None THEN DashContinue(i) ELSE Goto(i, "team")

\* if not team_uuid: continue
DashAfterTeam(i, t) ==
  IF t = None THEN DashContinue(i) ELSE Goto(i, "write")

\* a write that names the first dashboard of the batch
DashWriteArgsFirst(i) == <<team_uuid[i], dashboard_ids[i][1]>>

\* set_dashboard_permissions(team_uuid, dashboard_id)
DashWriteArgs(i) == <<team_uuid[i], dashboard_ids[i][idx[i]]>>

\* ------------------------------------------------------------ dashboard pipeline
\* one turn of the while loop of get_dashboards_created_last_minute
DashFetch(i) ==
  /\ kind[i] = "dashboard"
  /\ pc[i] = "fetch"
  /\ Len(calls[i]) < MaxRequests
  /\ \E fails \in BOOLEAN :
       IF fails
       THEN /\ calls' = Log(i, [fn |-> "search_audit_logs", at |-> 0,
                                arg |-> next_page_token[i], ok |-> FALSE,
                                ret |-> NoResponse])
            /\ DashTopExcept(i)
            /\ UNCHANGED <<dashboard_ids, next_page_token>>
       ELSE LET response == AuditSearch(next_page_token[i])
                ids == ExtendIds(dashboard_ids[i], response.data)
                token == PageAfter(response)
            IN  /\ calls' = Log(i, [fn |-> "search_audit_logs", at |-> 0,
                                    arg |-> next_page_token[i], ok |-> TRUE,
                                    ret |-> response])
                /\ dashboard_ids' = [dashboard_ids EXCEPT ![i] = ids]
                /\ next_page_token' = [next_page_token EXCEPT ![i] = token]
                /\ IF token = NoCursor
                   THEN DashEnterLoop(i, ids)
                   ELSE Goto(i, "fetch")
  /\ UNCHANGED <<env, monitor_ids, user_id, team_name, team_uuid, policies>>

\* user_id = get_dashboard_creator_user_id(dashboard_id)
DashCreator(i) ==
  /\ kind[i] = "dashboard"
  /\ pc[i] = "creator"
  /\ LET d == dashboard_ids[i][idx[i]]
     IN  \E fails \in BOOLEAN :
           IF fails
           THEN /\ calls' = Log(i, [fn |-> "get_dashboard_creator_user_id",
                                    at |-> idx[i], arg |-> d, ok |-> FALSE,
                                    ret |-> None])
                /\ DashResourceExcept(i)
                /\ UNCHANGED user_id
           ELSE /\ calls' = Log(i, [fn |-> "get_dashboard_creator_user_id",
                                    at |-> idx[i], arg |-> d, ok |-> TRUE,
                                    ret |-> creatorOf[d]])
                /\ user_id' = [user_id EXCEPT ![i] = creatorOf[d]]
                /\ DashAfterCreator(i, creatorOf[d])
  /\ UNCHANGED <<env, dashboard_ids, next_page_token, monitor_ids, team_name,
                 team_uuid, policies>>

\* team_uuid = get_team_uuid_by_user_id(user_id)
\* outcome: the directory answers, the directory call fails (caught in the
\* function, None), or the function itself raises outside its try
DashTeam(i) ==
  /\ kind[i] = "dashboard"
  /\ pc[i] = "team"
  /\ \E outcome \in {"answer", "caught", "raise"} :
       IF outcome = "raise"
       THEN /\ calls' = Log(i, [fn |-> "get_team_uuid_by_user_id",
                                at |-> idx[i], arg |-> user_id[i], ok |-> FALSE,
                                ret |-> None])
            /\ DashResourceExcept(i)
            /\ UNCHANGED team_uuid
       ELSE LET t == IF outcome = "answer" /\ KnownUser(user_id[i])
                     THEN FirstOrNone(memberships[user_id[i]])
                     ELSE None
            IN  /\ calls' = Log(i, [fn |-> "get_team_uuid_by_user_id",
                                    at |-> idx[i], arg |-> user_id[i],
                                    ok |-> TRUE, ret |-> t])
                /\ team_uuid' = [team_uuid EXCEPT ![i] = t]
                /\ DashAfterTeam(i, t)
  /\ UNCHANGED <<env, dashboard_ids, next_page_token, monitor_ids, user_id,
                 team_name, policies>>

\* set_dashboard_permissions(team_uuid, dashboard_id)
DashWrite(i) ==
  /\ kind[i] = "dashboard"
  /\ pc[i] = "write"
  /\ LET a == DashWriteArgs(i)
         body == DashboardPolicyBody(a[1], a[2])
     IN  \E fails \in BOOLEAN :
           IF fails
           THEN /\ calls' = Log(i, [fn |-> "set_dashboard_permissions",
                                    at |-> idx[i], arg |-> a, ok |-> FALSE,
                                    ret |-> None])
                /\ DashResourceExcept(i)
                /\ UNCHANGED policies
           ELSE /\ calls' = Log(i, [fn |-> "set_dashboard_permissions",
                                    at |-> idx[i], arg |-> a, ok |-> TRUE,
                                    ret |-> None])
                /\ policies' = UpdateRestrictionPolicy(<<"dashboard", a[2]>>, body)
                /\ DashContinue(i)
  /\ UNCHANGED <<env, dashboard_ids, next_page_token, monitor_ids, user_id,
                 team_name, team_uuid>>

Dashboard(i) == DashFetch(i) \/ DashCreator(i) \/ DashTeam(i) \/ DashWrite(i)

\* ------------------------------------------------------------ monitor pipeline
\* response.tags, each tag given as the parts item.split(":") yields
TagLists ==
  { <<>>,
    << <<"team", "a">> >>,
    << <<"env", "prod">>, <<"team", "b">> >>,
    << <<"team", "a">>, <<"team", "b">> >>,
    << <<"team", "a", "x">> >>,
    << <<"env", "prod">> >>,
    << <<"team", "a">>, <<"solo">> >> }

\* item.split(":")[1] exists for every item (no IndexError)
TagsSplit(tags) == \A k \in 1..Len(tags) : Len(tags[k]) >= 2

\* {item.split(":")[0]: item.split(":")[1] for item in response.tags}
TagKeys(tags) == {tags[k][1] : k \in 1..Len(tags)}

\* tags[key]: a later item with the same key replaces an earlier one
TagValue(tags, key) ==
  LET last == CHOOSE k \in 1..Len(tags) :
                /\ tags[k][1] = key
                /\ \A j \in (k + 1)..Len(tags) : tags[j][1] # key
  IN  tags[last][2]

\* if monitor_ids: for monitor_id in monitor_ids ... else: print
MonEnterLoop(i, ids) ==
  /\ pc' = [pc EXCEPT ![i] = IF ids = <<>> THEN "done" ELSE "owner"]
  /\ idx' = [idx EXCEPT ![i] = 1]
  /\ UNCHANGED raised

\* end of the loop body: the next monitor_id, or the end of the list
MonContinue(i) ==
  /\ idx' = [idx EXCEPT ![i] = @ + 1]
  /\ pc' = [pc EXCEPT ![i] =
              IF idx[i] + 1 > Len(monitor_ids[i]) THEN "done" ELSE "owner"]
  /\ UNCHANGED raised

\* except Exception as e, around the whole handler: the only handler there is
MonTopExcept(i) ==
  /\ pc' = [pc EXCEPT ![i] = "done"]
  /\ UNCHANGED <<idx, raised>>

\* if team_uuid: set_monitor_permissions(...) else: print
MonAfterTeam(i, t) ==
  IF t = None THEN MonContinue(i) ELSE Goto(i, "write")

\* set_monitor_permissions(team_uuid, monitor_id)
MonWriteArgs(i) == <<team_uuid[i], monitor_ids[i][idx[i]]>>

\* monitor_ids = get_monitors_created_last_minute(): one page, no cursor
MonFetch(i) ==
  /\ kind[i] = "monitor"
  /\ pc[i] = "fetch"
  /\ \E fails \in BOOLEAN :
       IF fails
       THEN /\ calls' = Log(i, [fn |-> "search_audit_logs", at |-> 0,
                                arg |-> NoCursor, ok |-> FALSE,
                                ret |-> NoResponse])
            /\ MonTopExcept(i)
            /\ UNCHANGED monitor_ids
       ELSE LET response == AuditSearch(NoCursor)
                ids == AssetIds(response.data)
            IN  /\ calls' = Log(i, [fn |-> "search_audit_logs", at |-> 0,
                                    arg |-> NoCursor, ok |-> TRUE,
                                    ret |-> response])
                /\ monitor_ids' = [monitor_ids EXCEPT ![i] = ids]
                /\ MonEnterLoop(i, ids)
  /\ UNCHANGED <<env, dashboard_ids, next_page_token, user_id, team_name,
                 team_uuid, policies>>

\* get_monitor_team(monitor_id): int(), get_monitor, the tag dictionary, ['team']
MonOwner(i) ==
  /\ kind[i] = "monitor"
  /\ pc[i] = "owner"
  /\ LET m == monitor_ids[i][idx[i]]
     IN  \/ /\ calls' = Log(i, [fn |-> "get_monitor_team", at |-> idx[i],
                                arg |-> m, ok |-> FALSE, ret |-> None])
            /\ MonTopExcept(i)
            /\ UNCHANGED team_name
         \/ \E tags \in TagLists :
              IF TagsSplit(tags) /\ "team" \in TagKeys(tags)
              THEN /\ calls' = Log(i, [fn |-> "get_monitor_team", at |-> idx[i],
                                       arg |-> m, ok |-> TRUE,
                                       ret |-> TagValue(tags, "team")])
                   /\ team_name' = [team_name EXCEPT ![i] = TagValue(tags, "team")]
                   /\ Goto(i, "team")
              ELSE /\ calls' = Log(i, [fn |-> "get_monitor_team", at |-> idx[i],
                                       arg |-> m, ok |-> FALSE, ret |-> None])
                   /\ MonTopExcept(i)
                   /\ UNCHANGED team_name
  /\ UNCHANGED <<env, dashboard_ids, next_page_token, monitor_ids, user_id,
                 team_uuid, policies>>

\* team_uuid = get_team_uuid_by_name(team_name)
MonTeam(i) ==
  /\ kind[i] = "monitor"
  /\ pc[i] = "team"
  /\ \E outcome \in {"answer", "caught", "raise"} :
       IF outcome = "raise"
       THEN /\ calls' = Log(i, [fn |-> "get_team_uuid_by_name", at |-> idx[i],
                                arg |-> team_name[i], ok |-> FALSE,
                                ret |-> None])
            /\ MonTopExcept(i)
            /\ UNCHANGED team_uuid
       ELSE \E data \in (IF outcome = "answer" THEN TeamSearchLists ELSE {<<>>}) :
              /\ calls' = Log(i, [fn |-> "get_team_uuid_by_name", at |-> idx[i],
                                  arg |-> team_name[i], ok |-> TRUE,
                                  ret |-> FirstOrNone(data)])
              /\ team_uuid' = [team_uuid EXCEPT ![i] = FirstOrNone(data)]
              /\ MonAfterTeam(i, FirstOrNone(data))
  /\ UNCHANGED <<env, dashboard_ids, next_page_token, monitor_ids, user_id,
                 team_name, policies>>

\* set_monitor_permissions(team_uuid, monitor_id)
MonWrite(i) ==
  /\ kind[i] = "monitor"
  /\ pc[i] = "write"
  /\ LET a == MonWriteArgs(i)
         body == MonitorPolicyBody(a[1], a[2])
     IN  \E fails \in BOOLEAN :
           IF fails
           THEN /\ calls' = Log(i, [fn |-> "set_monitor_permissions",
                                    at |-> idx[i], arg |-> a, ok |-> FALSE,
                                    ret |-> None])
                /\ MonTopExcept(i)
                /\ UNCHANGED policies
           ELSE /\ calls' = Log(i, [fn |-> "set_monitor_permissions",
                                    at |-> idx[i], arg |-> a, ok |-> TRUE,
                                    ret |-> None])
                /\ policies' = UpdateRestrictionPolicy(<<"monitor", a[2]>>, body)
                /\ MonContinue(i)
  /\ UNCHANGED <<env, dashboard_ids, next_page_token, monitor_ids, user_id,
                 team_name, team_uuid>>

Monitor(i) == MonFetch(i) \/ MonOwner(i) \/ MonTeam(i) \/ MonWrite(i)

\* ------------------------------------------------------------ initial states
\* the locals of an invocation that has not started
InitLocals ==
  /\ pc = [i \in Invs |-> IF kind[i] = "off" THEN "done" ELSE "fetch"]
  /\ dashboard_ids = [i \in Invs |-> <<>>]
  /\ next_page_token = [i \in Invs |-> NoCursor]
  /\ monitor_ids = [i \in Invs |-> <<>>]
  /\ idx = [i \in Invs |-> 0]
  /\ user_id = [i \in Invs |-> None]
  /\ team_name = [i \in Invs |-> None]
  /\ team_uuid = [i \in Invs |-> None]
  /\ raised = [i \in Invs |-> FALSE]
  /\ calls = [i \in Invs |-> <<>>]

InitPolicies ==
  /\ policies0 \in {[k \in PolicyKeys |-> p] : p \in PriorPolicies}
  /\ policies = policies0

Events(b) == [k \in 1..Len(b) |-> Event(b[k])]

\* the audit log serves a batch b in two pages, cut after its k-th event
InitBatch(S, n) ==
  \E b \in SeqsUpTo(S, n) : \E k \in 0..Len(b) :
     /\ pages = << Events(SubSeq(b, 1, k)), Events(SubSeq(b, k + 1, Len(b))) >>
     /\ after = << <<2>>, NoCursor >>

NoDirectory ==
  /\ creatorOf = [d \in Ids |-> None]
  /\ memberships = [u \in Users |-> <<>>]

InitDirectory ==
  /\ creatorOf \in [Ids -> Users \cup {None}]
  /\ memberships \in [Users -> MembershipLists]

\* one invocation of one of the two scripts
Init ==
  /\ kind \in {[i \in Invs |-> IF i = 1 THEN k ELSE "off"] :
                 k \in {"dashboard", "monitor"}}
  /\ InitLocals
  /\ InitPolicies
  /\ IF kind[1] = "dashboard"
     THEN InitBatch(Ids, MaxBatch) /\ InitDirectory
     ELSE InitBatch(MonitorIds, MaxMonitors) /\ NoDirectory

Next == \E i \in Invs : Dashboard(i) \/ Monitor(i)

Spec == Init /\ [][Next]_vars

\* the cursor-paged audit log alone: any pages, any cursor with each page
InitPage ==
  /\ kind = [i \in Invs |-> IF i = 1 THEN "dashboard" ELSE "off"]
  /\ InitLocals
  /\ policies0 = [k \in PolicyKeys |-> <<>>]
  /\ policies = policies0
  /\ \E n \in 1..MaxPages :
       /\ pages \in [1..n -> {Events(b) : b \in SeqsUpTo(Ids, MaxPageLen)}]
       /\ after \in [1..n -> {NoCursor} \cup {<<q>> : q \in 1..n}]
  /\ NoDirectory

NextPage == DashFetch(1)

SpecPage == InitPage /\ [][NextPage]_vars

\* two invocations of the dashboard script over the same audit log
InitTwo ==
  /\ kind = [i \in Invs |-> "dashboard"]
  /\ InitLocals
  /\ InitPolicies
  /\ pages \in { <<Events(b)>> : b \in {<<"d1">>, <<"d1", "d2">>, <<"d2", "d1">>} }
  /\ after = << NoCursor >>
  /\ InitDirectory

NextTwo == \E i \in Invs : Dashboard(i)

SpecTwo == InitTwo /\ [][NextTwo]_vars

\* ------------------------------------------------------------ properties
\* invocation i has called f while its loop was at position k
Called(i, f, k) ==
  \E n \in 1..Len(calls[i]) : calls[i][n].fn = f /\ calls[i][n].at = k

\* invocation i has called f at position k and the call returned
Returned(i, f, k) ==
  \E n \in 1..Len(calls[i]) :
     calls[i][n].fn = f /\ calls[i][n].at = k /\ calls[i][n].ok

DashStages ==
  {"get_dashboard_creator_user_id", "get_team_uuid_by_user_id",
   "set_dashboard_permissions"}

MonStages ==
  {"get_monitor_team", "get_team_uuid_by_name", "set_monitor_permissions"}

\* the policy of section 4.4 for team T
ExpectedBindings(T) ==
  << [relation |-> "editor",
      principals |-> << <<"team", T>>,
                        <<"role", "e5091040-1d03-11ef-9dbc-da7ad0900005">> >>],
     [relation |-> "viewer",
      principals |-> << <<"org", "e4f8bb8c-1d03-11ef-9b95-da7ad0900005">> >>] >>

\* no resource occurs twice in the id list
Distinct(ids) ==
  \A a, b \in 1..Len(ids) : a # b => ids[a] # ids[b]

\* C1: in the monitor pipeline a failure while processing the monitor at
\* position k (get_monitor_team or set_monitor_permissions raising) does not
\* abort the run: once the handler is done, every later position of
\* monitor_ids (a list of distinct monitors) has been processed too.
C1_MonitorFailureIsolated ==
  \A i \in Invs : (kind[i] = "monitor" /\ Distinct(monitor_ids[i])) =>
    \A n \in 1..Len(calls[i]) :
      (calls[i][n].fn \in MonStages /\ ~calls[i][n].ok /\ pc[i] = "done") =>
         \A j \in (calls[i][n].at + 1)..Len(monitor_ids[i]) :
            Called(i, "get_monitor_team", j)

\* C2: in the dashboard pipeline an exception of any per-resource stage at
\* position k is caught inside the loop: the handler does not raise, the loop
\* moves past k, and once the handler is done every later position of
\* dashboard_ids has been processed.
C2_DashboardFailureIsolated ==
  \A i \in Invs : kind[i] = "dashboard" =>
    \A n \in 1..Len(calls[i]) :
      (calls[i][n].fn \in DashStages /\ ~calls[i][n].ok) =>
         /\ ~raised[i]
         /\ idx[i] > calls[i][n].at
         /\ \A j \in (calls[i][n].at + 1)..Len(dashboard_ids[i]) :
              (j < idx[i] \/ pc[i] = "done") =>
                 Called(i, "get_dashboard_creator_user_id", j)

C2_Witness ==
  \E i \in Invs :
     /\ kind[i] = "dashboard"
     /\ pc[i] = "done"
     /\ Len(dashboard_ids[i]) = 2
     /\ Called(i, "set_dashboard_permissions", 1)
     /\ ~Returned(i, "set_dashboard_permissions", 1)
     /\ Returned(i, "set_dashboard_permissions", 2)

\* C3: the pagination never sends a cursor it has already sent in the same
\* invocation, and it has left the loop exactly when the last response
\* carried no next cursor.
C3_NoCursorRepeats ==
  \A i \in Invs : kind[i] = "dashboard" =>
    /\ \A m, n \in 1..Len(calls[i]) :
         (m < n /\ calls[i][m].fn = "search_audit_logs"
                /\ calls[i][n].fn = "search_audit_logs") =>
            calls[i][m].arg # calls[i][n].arg
    /\ \A n \in 1..Len(calls[i]) :
         (calls[i][n].fn = "search_audit_logs" /\ calls[i][n].ok) =>
            ((calls[i][n].ret.after = NoCursor) <=>
               (n = Len(calls[i]) /\ pc[i] # "fetch") \/
               (n < Len(calls[i]) /\ calls[i][n + 1].fn # "search_audit_logs"))

\* the audit log hands out its pages in order: each page carries the cursor
\* of the next, the last carries none
WellPaged ==
  \A p \in 1..Len(pages) :
     after[p] = IF p < Len(pages) THEN <<p + 1>> ELSE NoCursor

RECURSIVE AllAssetIds(_)
AllAssetIds(ps) ==
  IF ps = <<>> THEN <<>>
  ELSE [k \in 1..Len(Head(ps)) |-> Head(ps)[k].asset_id] \o AllAssetIds(Tail(ps))

FetchReturned(i) ==
  /\ kind[i] = "dashboard"
  /\ pc[i] # "fetch"
  /\ \A n \in 1..Len(calls[i]) : calls[i][n].ok

\* C4: when the audit log serves N creation events in P pages, each with the
\* cursor of the next, the fetch returns the N asset ids in the order served,
\* each event's id once, after exactly P requests: the first without a cursor,
\* the p-th with the cursor of page p.
C4_AllIdsInOrder ==
  \A i \in Invs : (FetchReturned(i) /\ WellPaged) =>
    /\ dashboard_ids[i] = AllAssetIds(pages)
    /\ Len(calls[i]) >= Len(pages)
    /\ \A p \in 1..Len(pages) :
         /\ calls[i][p].fn = "search_audit_logs"
         /\ calls[i][p].arg = IF p = 1 THEN NoCursor ELSE <<p>>
    /\ \A n \in (Len(pages) + 1)..Len(calls[i]) :
         calls[i][n].fn # "search_audit_logs"

C4_Witness ==
  /\ FetchReturned(1)
  /\ WellPaged
  /\ Len(pages) = 2
  /\ pages[1] # <<>>
  /\ dashboard_ids[1] = <<"d2", "d1">>

\* C5: when get_dashboard_creator_user_id returns None at position k, neither
\* get_team_uuid_by_user_id nor set_dashboard_permissions is called at k, and
\* the loop goes on to the next position.
C5_NoCreatorSkips ==
  \A i \in Invs : kind[i] = "dashboard" =>
    \A n \in 1..Len(calls[i]) :
      (/\ calls[i][n].fn = "get_dashboard_creator_user_id"
       /\ calls[i][n].ok
       /\ calls[i][n].ret = None) =>
         /\ ~Called(i, "get_team_uuid_by_user_id", calls[i][n].at)
         /\ ~Called(i, "set_dashboard_permissions", calls[i][n].at)
         /\ idx[i] > calls[i][n].at
         /\ \A j \in (calls[i][n].at + 1)..Len(dashboard_ids[i]) :
              (j < idx[i] \/ pc[i] = "done") =>
                 Called(i, "get_dashboard_creator_user_id", j)

C5_Witness ==
  \E i \in Invs :
     /\ kind[i] = "dashboard"
     /\ \E n \in 1..Len(calls[i]) :
          /\ calls[i][n].fn = "get_dashboard_creator_user_id"
          /\ calls[i][n].at = 1
          /\ calls[i][n].ok
          /\ calls[i][n].ret = None
     /\ Returned(i, "set_dashboard_permissions", 2)

\* C6: in both pipelines, when the team lookup yields None at position k of a
\* list of distinct resources, the permission writer is not called at k, and
\* once the handler is done every later position of the id list has been
\* processed.
C6_NoTeamSkips ==
  \A i \in Invs :
   (kind[i] # "off" /\ Distinct(dashboard_ids[i]) /\ Distinct(monitor_ids[i])) =>
    \A n \in 1..Len(calls[i]) :
      (/\ calls[i][n].fn \in {"get_team_uuid_by_user_id", "get_team_uuid_by_name"}
       /\ calls[i][n].ok
       /\ calls[i][n].ret = None) =>
         /\ ~Called(i, "set_dashboard_permissions", calls[i][n].at)
         /\ ~Called(i, "set_monitor_permissions", calls[i][n].at)
         /\ pc[i] = "done" =>
              IF kind[i] = "dashboard"
              THEN \A j \in (calls[i][n].at + 1)..Len(dashboard_ids[i]) :
                      Called(i, "get_dashboard_creator_user_id", j)
              ELSE \A j \in (calls[i][n].at + 1)..Len(monitor_ids[i]) :
                      Called(i, "get_monitor_team", j)

\* the last call of invocation i in the step is a permission write that succeeded
WriteDone(i) ==
  /\ Len(calls'[i]) = Len(calls[i]) + 1
  /\ calls'[i][Len(calls'[i])].fn \in
        {"set_dashboard_permissions", "set_monitor_permissions"}
  /\ calls'[i][Len(calls'[i])].ok

WrittenKey(c) ==
  << IF c.fn = "set_dashboard_permissions" THEN "dashboard" ELSE "monitor",
     c.arg[2] >>

\* C7: a successful permission write for team T and resource R leaves the
\* policy keyed by R's kind and id with exactly the two bindings
\* editor -> {team:T, the fixed role} and viewer -> {the fixed organization},
\* whatever the policy was before, and changes no other resource's policy.
C7_FullReplace ==
  [][\A i \in Invs : WriteDone(i) =>
        LET c == calls'[i][Len(calls'[i])]
        IN  /\ policies'[WrittenKey(c)] = ExpectedBindings(c.arg[1])
            /\ \A k \in PolicyKeys \ {WrittenKey(c)} : policies'[k] = policies[k]]_vars

C7_Witness ==
  \E i \in Invs : \E n \in 1..Len(calls[i]) :
     /\ calls[i][n].fn \in {"set_dashboard_permissions", "set_monitor_permissions"}
     /\ calls[i][n].ok
     /\ Len(policies0[WrittenKey(calls[i][n])]) = 3
     /\ policies[WrittenKey(calls[i][n])] = ExpectedBindings(calls[i][n].arg[1])

\* the team the directory gives for the creator of dashboard d
TeamOfCreator(d) ==
  IF creatorOf[d] = None \/ memberships[creatorOf[d]] = <<>>
  THEN None
  ELSE memberships[creatorOf[d]][1]

\* invocation i has written the policy of dashboard d
Wrote(i, d) ==
  \E n \in 1..Len(calls[i]) :
     /\ calls[i][n].fn = "set_dashboard_permissions"
     /\ calls[i][n].ok
     /\ calls[i][n].arg[2] = d

\* C8: once two invocations over the same dashboards have both finished,
\* however their remote calls interleaved, the policy of each dashboard is
\* the one a single invocation leaves: the two bindings for the team of the
\* dashboard's creator if any invocation wrote it, the earlier policy if none did.
C8_Converges ==
  (\A i \in Invs : pc[i] = "done") =>
     \A d \in Ids :
        policies[<<"dashboard", d>>] =
           IF \E i \in Invs : Wrote(i, d)
           THEN ExpectedBindings(TeamOfCreator(d))
           ELSE policies0[<<"dashboard", d>>]

C8_Witness ==
  /\ \A i \in Invs : kind[i] = "dashboard" /\ pc[i] = "done"
  /\ Wrote(1, "d1")
  /\ Wrote(2, "d1")
  /\ policies0[<<"dashboard", "d1">>] # <<>>
  /\ policies[<<"dashboard", "d1">>] = ExpectedBindings("t2")

\* C9: no failure of a remote call leaves a lambda_handler as an exception,
\* and a failed Change Detector fetch is the invocation's last call: the
\* handler is done and no resolver, lookup or writer call was made.
C9_NeverRaises ==
  \A i \in Invs :
     /\ ~raised[i]
     /\ \A n \in 1..Len(calls[i]) :
          (calls[i][n].fn = "search_audit_logs" /\ ~calls[i][n].ok) =>
             /\ pc[i] = "done"
             /\ n = Len(calls[i])
             /\ \A m \in 1..Len(calls[i]) : calls[i][m].fn = "search_audit_logs"

C9_Witness ==
  \E i \in Invs :
     /\ kind[i] = "dashboard"
     /\ pc[i] = "done"
     /\ Len(calls[i]) = 2
     /\ calls[i][1].ret.data # <<>>
     /\ ~calls[i][2].ok
     /\ calls[i][2].fn = "search_audit_logs"

\* C10: every policy write a dashboard invocation has issued is for the
\* dashboard at the loop position of the write, an id the Change Detector
\* returned in this invocation, and its team is the one
\* get_team_uuid_by_user_id returned, at that position, for the user that
\* get_dashboard_creator_user_id returned for that dashboard; an empty list
\* gives no write.
C10_WritesJustified ==
  \A i \in Invs : kind[i] = "dashboard" =>
    \A n \in 1..Len(calls[i]) :
      calls[i][n].fn = "set_dashboard_permissions" =>
        LET c == calls[i][n]
        IN  /\ c.at \in 1..Len(dashboard_ids[i])
            /\ dashboard_ids[i][c.at] = c.arg[2]
            /\ \E m \in 1..(n - 1) :
                 /\ calls[i][m].fn = "search_audit_logs"
                 /\ calls[i][m].ok
                 /\ \E e \in 1..Len(calls[i][m].ret.data) :
                      calls[i][m].ret.data[e].asset_id = c.arg[2]
            /\ n >= 3
            /\ calls[i][n - 1].fn = "get_team_uuid_by_user_id"
            /\ calls[i][n - 1].at = c.at
            /\ calls[i][n - 1].ret = c.arg[1]
            /\ c.arg[1] # None
            /\ calls[i][n - 2].fn = "get_dashboard_creator_user_id"
            /\ calls[i][n - 2].at = c.at
            /\ calls[i][n - 2].arg = c.arg[2]
            /\ calls[i][n - 2].ok
            /\ calls[i][n - 2].ret = calls[i][n - 1].arg

C10_Witness ==
  \E i \in Invs :
     /\ kind[i] = "dashboard"
     /\ \E m, n \in 1..Len(calls[i]) :
          /\ calls[i][m].fn = "set_dashboard_permissions"
          /\ calls[i][n].fn = "set_dashboard_permissions"
          /\ calls[i][m].ok
          /\ calls[i][n].ok
          /\ calls[i][m].at = 1
          /\ calls[i][n].at = 2
          /\ calls[i][m].arg = <<"t1", "d2">>
          /\ calls[i][n].arg = <<"t2", "d1">>

====
